---- MODULE Spec2Model ----
(***************************************************************************)
(* A model of winmix (src/src/lib.rs): WinMix (COM lifecycle and          *)
(* enumerate), Session and SimpleVolume, together with the part of the     *)
(* Windows platform those functions call: the COM apartment of the thread, *)
(* the audio endpoints and their sessions, and the process table.          *)
(***************************************************************************)
EXTENDS Integers, Sequences, FiniteSets, TLC

(***************************************************************************)
(* Bounds of the model.                                                    *)
(***************************************************************************)
\* capacity of the path buffer; stands for MAX_PATH (260) of lib.rs:106
MaxPath == 2
\* most active render endpoints the platform reports
MaxEndpoints == 2
\* most audio sessions the platform reports over all endpoints
MaxSessions == 2
\* most WinMix values created on the thread
MaxContexts == 3
\* most CoInitializeEx calls made on the thread by code other than WinMix
MaxExternal == 1

Contexts == 1..MaxContexts
MainCtx == CHOOSE c \in Contexts : \A d \in Contexts : c <= d

(***************************************************************************)
(* The platform's process table.  Pid 0 owns the system-sounds session.   *)
(* ImagePath(p) is the main-module name GetModuleFileNameExW reads from    *)
(* process p, as UTF-16 code units; it comes from the memory of the target *)
(* process, so its content is not under the caller's control.              *)
(***************************************************************************)
Pids == {0, 1, 2, 3}

ImagePath(p) ==
  CASE p = 1 -> <<97, 233>>      \* "a", "e-acute"
    [] p = 2 -> <<0, 97>>        \* a name that starts with NUL
    [] p = 3 -> <<0, 233>>       \* NUL, then a two-byte character
    [] OTHER -> <<>>

Min(a, b) == IF a <= b THEN a ELSE b

\* let mut path: [u16; MAX_PATH] = [0; MAX_PATH]
ZeroBuffer == [i \in 1..MaxPath |-> 0]

\* The buffer after a successful GetModuleFileNameExW: the name, cut to the
\* capacity, over the zeros the buffer was initialised with.
ModuleBuffer(p) ==
  [i \in 1..MaxPath |-> IF i <= Len(ImagePath(p)) THEN ImagePath(p)[i] ELSE 0]

(***************************************************************************)
(* String::from_utf16_lossy, trim_matches and truncate.  A String is       *)
(* modelled as the sequence of its code points; lengths are in UTF-8 bytes *)
(* as in Rust.                                                             *)
(***************************************************************************)
IsHighSurrogate(u) == u >= 55296 /\ u <= 56319
IsLowSurrogate(u) == u >= 56320 /\ u <= 57343

RECURSIVE from_utf16_lossy(_)
from_utf16_lossy(units) ==
  IF units = <<>> THEN <<>>
  ELSE LET u == Head(units)
           rest == Tail(units)
       IN IF IsHighSurrogate(u) /\ rest /= <<>> /\ IsLowSurrogate(Head(rest))
          THEN <<65536 + (u - 55296) * 1024 + (Head(rest) - 56320)>>
                 \o from_utf16_lossy(Tail(rest))
          ELSE IF IsHighSurrogate(u) \/ IsLowSurrogate(u)
          THEN <<65533>> \o from_utf16_lossy(rest)
          ELSE <<u>> \o from_utf16_lossy(rest)

len_utf8(c) == IF c < 128 THEN 1 ELSE IF c < 2048 THEN 2 ELSE IF c < 65536 THEN 3 ELSE 4

RECURSIVE StrLen(_)
StrLen(s) == IF s = <<>> THEN 0 ELSE len_utf8(Head(s)) + StrLen(Tail(s))

RECURSIVE TrimStart(_)
TrimStart(s) == IF s /= <<>> /\ Head(s) = 0 THEN TrimStart(Tail(s)) ELSE s

RECURSIVE TrimEnd(_)
TrimEnd(s) ==
  IF s /= <<>> /\ s[Len(s)] = 0 THEN TrimEnd(SubSeq(s, 1, Len(s) - 1)) ELSE s

\* str::trim_matches(char::from(0)): strips the pattern from both ends
trim_matches(s) == TrimEnd(TrimStart(s))

\* str::is_char_boundary: new_len is the byte offset of the start of a
\* character, or the byte length of the string
is_char_boundary(s, new_len) ==
  \E k \in 0..Len(s) : StrLen(SubSeq(s, 1, k)) = new_len

\* String::truncate(new_len): no effect when new_len is not less than the
\* length, a panic when new_len is not on a character boundary
truncate(s, new_len) ==
  IF new_len >= StrLen(s) THEN [panic |-> FALSE, str |-> s]
  ELSE IF ~is_char_boundary(s, new_len) THEN [panic |-> TRUE, str |-> <<>>]
  ELSE [panic |-> FALSE,
        str |-> SubSeq(s, 1, CHOOSE k \in 0..Len(s) : StrLen(SubSeq(s, 1, k)) = new_len)]

\* lib.rs:119-120
PathFromBuffer(buf) ==
  LET s == from_utf16_lossy(buf)
  IN truncate(s, StrLen(trim_matches(s)))

(***************************************************************************)
(* HRESULTs of CoInitialize and HRESULT::is_ok (a non-negative code).      *)
(***************************************************************************)
is_ok(hres) == hres \in {"S_OK", "S_FALSE"}

\* CoInitialize(None) asks for a single-threaded apartment.
CoInitializeResults(mode) ==
  { IF mode = "none" THEN "S_OK"
    ELSE IF mode = "sta" THEN "S_FALSE"
    ELSE "RPC_E_CHANGED_MODE",
    "E_OUTOFMEMORY" }

VARIABLES
  comMode,          \* apartment of the thread: "none", "sta" or "mta"
  comCount,         \* successful CoInitialize calls not yet balanced
  extInits,         \* of those, the ones made by code other than WinMix
  extUsed,          \* CoInitializeEx calls made so far by other code
  ctx,              \* per WinMix value: "none", "alive" or "dropped"
  com_initialized,  \* WinMix.com_initialized
  coUninit,         \* per WinMix value: CoUninitialize calls made by its drop
  initHres,         \* per WinMix value: what CoInitialize returned to its creation
  endpoints,        \* active render endpoints, each the pids of its sessions
  sessVol,          \* master volume of each session, in percent
  sessMute,         \* mute state of each session
  sessInvalid,      \* sessions the platform has invalidated (process exited)
  pc,               \* position of the thread in enumerate()
  device_count, device_id, session_count, session_id,
  pid,              \* locals of enumerate()
  proc,             \* the process handle held by enumerate(), or NoHandle
  path,             \* the [u16; MAX_PATH] buffer
  res,              \* return value of GetModuleFileNameExW
  result,           \* the Vec<Session> under construction
  ret,              \* what enumerate() returned
  held,             \* the pid and volume handle of each Session of the last
                    \* Ok(result): what the caller keeps using after the call
  lastCall,         \* the last platform call of enumerate() and its outcome
  handles,          \* process handles opened by this call and still open
  closeCalled,      \* process handles this call passed to CloseHandle
  noPath,           \* sessions of this call whose module-path query failed
  openFailed,       \* sessions of this call whose process could not be opened
  lastOp,           \* the last SimpleVolume call, its handle, argument and result
  lastSetVol,       \* per session: the level last set through a handle, if no
                    \* other actor changed the volume since
  lastSetMute       \* the same for the mute state

comVars == <<comMode, comCount, extInits, extUsed>>
ctxVars == <<ctx, com_initialized, coUninit, initHres>>
platVars == <<endpoints, sessVol, sessMute, sessInvalid>>
walkVars == <<device_count, device_id, session_count, session_id, pid, proc, path, res>>
ghostVars == <<handles, closeCalled, noPath, openFailed>>
volVars == <<lastOp, lastSetVol, lastSetMute>>
vars == <<comVars, ctxVars, platVars, pc, walkVars, result, ret, held, lastCall, ghostVars,
          volVars>>

NoHandle == <<>>
NoRet == [ok |-> FALSE, val |-> <<>>, err |-> "none"]
NoCall == [call |-> "none", ok |-> TRUE]
NoOp == [op |-> "none", h |-> <<>>, arg |-> <<>>, fwd |-> <<>>, platOk |-> TRUE,
         ok |-> TRUE, val |-> <<>>]

(***************************************************************************)
(* Platform states the model starts from.                                  *)
(***************************************************************************)
SeqsUpTo(S, n) == UNION {[1..k -> S] : k \in 0..n}

RECURSIVE Total(_)
Total(t) == IF t = <<>> THEN 0 ELSE Len(Head(t)) + Total(Tail(t))

Topologies ==
  {t \in SeqsUpTo(SeqsUpTo(Pids, MaxSessions), MaxEndpoints) : Total(t) <= MaxSessions}

\* two endpoints, each with the session of one process
Fixture == << <<1>>, <<2>> >>

\* sessions are named by their position <<device_id, session_id>>
AllKeys(t) == UNION {{<<d - 1, s - 1>> : s \in 1..Len(t[d])} : d \in 1..Len(t)}

PidOf(k) == endpoints[k[1] + 1][k[2] + 1]

InitWith(topos, modes) ==
  /\ comMode \in modes
  /\ comCount = IF comMode = "none" THEN 0 ELSE 1
  /\ extInits = comCount
  /\ extUsed = 0
  /\ ctx = [c \in Contexts |-> "none"]
  /\ com_initialized = [c \in Contexts |-> FALSE]
  /\ coUninit = [c \in Contexts |-> 0]
  /\ initHres = [c \in Contexts |-> "none"]
  /\ endpoints \in topos
  /\ sessVol = [k \in AllKeys(endpoints) |-> 100]
  /\ sessMute = [k \in AllKeys(endpoints) |-> FALSE]
  /\ sessInvalid = {}
  /\ pc = "idle"
  /\ device_count = 0 /\ device_id = 0 /\ session_count = 0 /\ session_id = 0
  /\ pid = 0 /\ proc = NoHandle /\ path = ZeroBuffer /\ res = 0
  /\ result = <<>> /\ ret = NoRet /\ held = <<>> /\ lastCall = NoCall
  /\ handles = {} /\ closeCalled = {} /\ noPath = {} /\ openFailed = {}
  /\ lastOp = NoOp
  /\ lastSetVol = [k \in AllKeys(endpoints) |-> <<>>]
  /\ lastSetMute = [k \in AllKeys(endpoints) |-> <<>>]

Init == InitWith(Topologies, {"none", "sta", "mta"})

(***************************************************************************)
(* The thread runs one call at a time: a WinMix value is created or        *)
(* dropped only between calls of enumerate(), which borrows it.            *)
(***************************************************************************)
BetweenCalls == pc \in {"idle", "returned", "panicked"}

\* CoUninitialize, as the platform sees it
CoUninitializeEffect ==
  /\ comCount' = IF comCount > 0 THEN comCount - 1 ELSE 0
  /\ comMode' = IF comCount > 1 THEN comMode ELSE "none"

\* impl Default for WinMix, lib.rs:134-147
WinMixDefault(c) ==
  /\ BetweenCalls
  /\ ctx[c] = "none"
  /\ \E hres \in CoInitializeResults(comMode) :
       /\ com_initialized' = [com_initialized EXCEPT ![c] = is_ok(hres)]
       /\ initHres' = [initHres EXCEPT ![c] = hres]
       /\ IF hres \in {"S_OK", "S_FALSE"}
          THEN comCount' = comCount + 1 /\ comMode' = "sta"
          ELSE UNCHANGED <<comCount, comMode>>
  /\ ctx' = [ctx EXCEPT ![c] = "alive"]
  /\ UNCHANGED <<extInits, extUsed, coUninit, platVars, pc, walkVars, result, ret, held,
                 lastCall, ghostVars, volVars>>

\* a teardown that gives the apartment back whoever took it
WinMixDrop_always(c) ==
  /\ BetweenCalls
  /\ ctx[c] = "alive"
  /\ CoUninitializeEffect /\ coUninit' = [coUninit EXCEPT ![c] = @ + 1]
  /\ ctx' = [ctx EXCEPT ![c] = "dropped"]
  /\ UNCHANGED <<extInits, extUsed, com_initialized, initHres, platVars, pc,
                 walkVars, result, ret, held, lastCall, ghostVars, volVars>>

\* impl Drop for WinMix, lib.rs:149-158
WinMixDrop(c) ==
  /\ BetweenCalls
  /\ ctx[c] = "alive"
  /\ IF com_initialized[c]
     THEN CoUninitializeEffect /\ coUninit' = [coUninit EXCEPT ![c] = @ + 1]
     ELSE UNCHANGED <<comCount, comMode, coUninit>>
  /\ ctx' = [ctx EXCEPT ![c] = "dropped"]
  /\ UNCHANGED <<extInits, extUsed, com_initialized, initHres, platVars, pc,
                 walkVars, result, ret, held, lastCall, ghostVars, volVars>>

\* Other code on the thread initialises COM, in either apartment model.
ExternalCoInitialize(mode) ==
  /\ BetweenCalls
  /\ extUsed < MaxExternal
  /\ extUsed' = extUsed + 1
  /\ IF comMode \in {"none", mode}
     THEN comCount' = comCount + 1 /\ comMode' = mode /\ extInits' = extInits + 1
     ELSE UNCHANGED <<comCount, comMode, extInits>>
  /\ UNCHANGED <<ctxVars, platVars, pc, walkVars, result, ret, held, lastCall, ghostVars, volVars>>

\* Other code on the thread balances one of its own initialisations.
ExternalCoUninitialize ==
  /\ BetweenCalls
  /\ extInits > 0
  /\ extInits' = extInits - 1
  /\ CoUninitializeEffect
  /\ UNCHANGED <<extUsed, ctxVars, platVars, pc, walkVars, result, ret, held, lastCall,
                 ghostVars, volVars>>

NextLife ==
  \/ \E c \in Contexts : WinMixDefault(c)
  \/ \E c \in Contexts : WinMixDrop(c)
  \/ \E mode \in {"sta", "mta"} : ExternalCoInitialize(mode)
  \/ ExternalCoUninitialize

SpecLife == InitWith({Fixture}, {"none", "sta", "mta"}) /\ [][NextLife]_vars

(***************************************************************************)
(* WinMix::enumerate, lib.rs:72-131, one action per platform call.  Every  *)
(* call either succeeds or fails, as the platform decides.                 *)
(***************************************************************************)
Key == <<device_id, session_id>>

\* What the caller keeps of a returned Vec<Session>.  The handles stay usable
\* after any later call; path is a String that nothing reads again.
HeldOf(sessions) ==
  [i \in DOMAIN sessions |-> [pid |-> sessions[i].pid, vol |-> sessions[i].vol]]

ClearLocals ==
  /\ device_count' = 0 /\ device_id' = 0 /\ session_count' = 0 /\ session_id' = 0
  /\ pid' = 0 /\ proc' = NoHandle /\ path' = ZeroBuffer /\ res' = 0

\* a best-effort variant: a failed call ends the walk with what was collected
Propagate_partial(call) ==
  /\ pc' = "returned"
  /\ ret' = [ok |-> TRUE, val |-> result, err |-> "none"]
  /\ held' = HeldOf(result)
  /\ result' = <<>>
  /\ ClearLocals

\* the ? operator on a failed call: enumerate() returns Err(e); the locals,
\* result among them, are dropped
Propagate(call) ==
  /\ pc' = "returned"
  /\ ret' = [ok |-> FALSE, val |-> <<>>, err |-> call]
  /\ UNCHANGED held
  /\ result' = <<>>
  /\ ClearLocals

\* a call that yields nothing the walk keeps: on success go on at `to`
Try(from, call, mayOk, to) ==
  /\ pc = from
  /\ \E ok \in (IF mayOk THEN BOOLEAN ELSE {FALSE}) :
       /\ lastCall' = [call |-> call, ok |-> ok]
       /\ IF ok
          THEN pc' = to /\ UNCHANGED <<walkVars, result, ret, held>>
          ELSE Propagate(call)
  /\ UNCHANGED <<comVars, ctxVars, platVars, ghostVars, volVars>>

\* an enumerate() that initialises COM itself when the WinMix does not own it
EnumerateCall_init(c) ==
  /\ BetweenCalls
  /\ ctx[c] = "alive"
  /\ pc' = "CoCreateInstance"
  /\ result' = <<>>
  /\ ret' = NoRet
  /\ UNCHANGED held
  /\ lastCall' = NoCall
  /\ ClearLocals
  /\ handles' = {} /\ closeCalled' = {} /\ noPath' = {} /\ openFailed' = {}
  /\ lastOp' = NoOp
  /\ IF ~com_initialized[c] /\ comMode = "none"
     THEN /\ com_initialized' = [com_initialized EXCEPT ![c] = TRUE]
          /\ comCount' = comCount + 1 /\ comMode' = "sta"
          /\ UNCHANGED <<extInits, extUsed, ctx, coUninit, initHres>>
     ELSE UNCHANGED <<comVars, ctxVars>>
  /\ UNCHANGED <<platVars, lastSetVol, lastSetMute>>

\* lib.rs:72-73
EnumerateCall(c) ==
  /\ BetweenCalls
  /\ ctx[c] = "alive"
  /\ pc' = "CoCreateInstance"
  /\ result' = <<>>
  /\ ret' = NoRet
  /\ UNCHANGED held
  /\ lastCall' = NoCall
  /\ ClearLocals
  /\ handles' = {} /\ closeCalled' = {} /\ noPath' = {} /\ openFailed' = {}
  /\ lastOp' = NoOp
  /\ UNCHANGED <<comVars, ctxVars, platVars, lastSetVol, lastSetMute>>

\* lib.rs:75; CO_E_NOTINITIALIZED when the thread has no apartment
CoCreateInstance == Try("CoCreateInstance", "CoCreateInstance", comCount > 0, "EnumAudioEndpoints")

\* lib.rs:77-78
EnumAudioEndpoints == Try("EnumAudioEndpoints", "EnumAudioEndpoints", TRUE, "GetCount")

\* lib.rs:80
CollectionGetCount ==
  /\ pc = "GetCount"
  /\ \E ok \in BOOLEAN :
       /\ lastCall' = [call |-> "IMMDeviceCollection::GetCount", ok |-> ok]
       /\ IF ok
          THEN /\ device_count' = Len(endpoints)
               /\ device_id' = 0
               /\ pc' = "ForDevice"
               /\ UNCHANGED <<session_count, session_id, pid, proc, path, res, result, ret, held>>
          ELSE Propagate("IMMDeviceCollection::GetCount")
  /\ UNCHANGED <<comVars, ctxVars, platVars, ghostVars, volVars>>

\* a variant whose loop stops one endpoint early
ForDevice_short ==
  /\ pc = "ForDevice"
  /\ IF device_id + 1 < device_count
     THEN pc' = "Item" /\ UNCHANGED <<walkVars, result, ret, held>>
     ELSE /\ pc' = "returned"
          /\ ret' = [ok |-> TRUE, val |-> result, err |-> "none"]
          /\ held' = HeldOf(result)
          /\ result' = <<>>
          /\ ClearLocals
  /\ UNCHANGED <<comVars, ctxVars, platVars, lastCall, ghostVars, volVars>>

\* lib.rs:82 and 130
ForDevice ==
  /\ pc = "ForDevice"
  /\ IF device_id < device_count
     THEN pc' = "Item" /\ UNCHANGED <<walkVars, result, ret, held>>
     ELSE /\ pc' = "returned"
          /\ ret' = [ok |-> TRUE, val |-> result, err |-> "none"]
          /\ held' = HeldOf(result)
          /\ result' = <<>>
          /\ ClearLocals
  /\ UNCHANGED <<comVars, ctxVars, platVars, lastCall, ghostVars, volVars>>

\* lib.rs:83
Item == Try("Item", "Item", TRUE, "Activate")

\* lib.rs:85
Activate == Try("Activate", "Activate", TRUE, "GetSessionEnumerator")

\* lib.rs:86
GetSessionEnumerator == Try("GetSessionEnumerator", "GetSessionEnumerator", TRUE, "SessionGetCount")

\* lib.rs:88
EnumeratorGetCount ==
  /\ pc = "SessionGetCount"
  /\ \E ok \in BOOLEAN :
       /\ lastCall' = [call |-> "IAudioSessionEnumerator::GetCount", ok |-> ok]
       /\ IF ok
          THEN /\ session_count' = Len(endpoints[device_id + 1])
               /\ session_id' = 0
               /\ pc' = "ForSession"
               /\ UNCHANGED <<device_count, device_id, pid, proc, path, res, result, ret, held>>
          ELSE Propagate("IAudioSessionEnumerator::GetCount")
  /\ UNCHANGED <<comVars, ctxVars, platVars, ghostVars, volVars>>

\* lib.rs:90 and the end of the body of the loop of lib.rs:82
ForSession ==
  /\ pc = "ForSession"
  /\ IF session_id < session_count
     THEN pc' = "GetSession" /\ UNCHANGED <<device_id, session_count, session_id>>
     ELSE /\ pc' = "ForDevice"
          /\ device_id' = device_id + 1
          /\ session_count' = 0 /\ session_id' = 0
  /\ UNCHANGED <<comVars, ctxVars, platVars, device_count, pid, proc, path, res,
                 result, ret, held, lastCall, ghostVars, volVars>>

\* lib.rs:91
GetSession == Try("GetSession", "GetSession", TRUE, "CastControl2")

\* lib.rs:92
CastControl2 == Try("CastControl2", "IAudioSessionControl::cast", TRUE, "GetProcessId")

\* the continue of lib.rs:101, and the end of the body of the loop of lib.rs:90
NextSession ==
  /\ session_id' = session_id + 1
  /\ pid' = 0 /\ proc' = NoHandle /\ path' = ZeroBuffer /\ res' = 0
  /\ pc' = "ForSession"
  /\ UNCHANGED <<device_count, device_id, session_count>>

\* a variant without the pid test
SkipSystemSounds_never(p) ==
  /\ pid' = p
  /\ pc' = "OpenProcess"
  /\ UNCHANGED <<device_count, device_id, session_count, session_id, proc, path, res>>

\* lib.rs:96-102, with the pid just read
SkipSystemSounds(p) ==
  IF p = 0
  THEN NextSession
  ELSE /\ pid' = p
       /\ pc' = "OpenProcess"
       /\ UNCHANGED <<device_count, device_id, session_count, session_id, proc, path, res>>

\* lib.rs:94-102
GetProcessId ==
  /\ pc = "GetProcessId"
  /\ \E ok \in BOOLEAN :
       /\ lastCall' = [call |-> "GetProcessId", ok |-> ok]
       /\ IF ok
          THEN SkipSystemSounds(PidOf(Key)) /\ UNCHANGED <<result, ret, held>>
          ELSE Propagate("GetProcessId")
  /\ UNCHANGED <<comVars, ctxVars, platVars, ghostVars, volVars>>

\* lib.rs:104; the process may have exited, or access may be denied
OpenProcess ==
  /\ pc = "OpenProcess"
  /\ \E ok \in BOOLEAN :
       /\ lastCall' = [call |-> "OpenProcess", ok |-> ok]
       /\ IF ok
          THEN /\ proc' = Key
               /\ handles' = handles \cup {Key}
               /\ pc' = "GetModuleFileNameExW"
               /\ UNCHANGED <<device_count, device_id, session_count, session_id, pid,
                              path, res, result, ret, held>>
          ELSE Propagate("OpenProcess") /\ UNCHANGED handles
       /\ openFailed' = IF ok THEN openFailed ELSE openFailed \cup {Key}
  /\ UNCHANGED <<comVars, ctxVars, platVars, closeCalled, noPath, volVars>>

\* a variant that propagates a failed query with ?, before the handle is closed
GetModuleFileNameExW_propagate ==
  /\ pc = "GetModuleFileNameExW"
  /\ \E ok \in BOOLEAN :
       /\ lastCall' = [call |-> "GetModuleFileNameExW", ok |-> ok]
       /\ noPath' = IF ok THEN noPath ELSE noPath \cup {Key}
       /\ IF ok
          THEN /\ path' = ModuleBuffer(pid)
               /\ res' = Min(Len(ImagePath(pid)), MaxPath)
               /\ pc' = "CloseHandle"
               /\ UNCHANGED <<device_count, device_id, session_count, session_id, pid,
                              proc, result, ret, held>>
          ELSE Propagate("GetModuleFileNameExW")
  /\ UNCHANGED <<comVars, ctxVars, platVars, handles, closeCalled, openFailed, volVars>>

\* lib.rs:106-108; the call returns the number of units copied, and a failed
\* call returns 0 and leaves the buffer as it was initialised.  Its result is
\* not propagated: lib.rs:111-114 does nothing on 0.
GetModuleFileNameExW ==
  /\ pc = "GetModuleFileNameExW"
  /\ \E ok \in BOOLEAN :
       /\ lastCall' = [call |-> "GetModuleFileNameExW", ok |-> ok]
       /\ path' = IF ok THEN ModuleBuffer(pid) ELSE ZeroBuffer
       /\ res' = IF ok THEN Min(Len(ImagePath(pid)), MaxPath) ELSE 0
       /\ noPath' = IF ok THEN noPath ELSE noPath \cup {Key}
  /\ pc' = "CloseHandle"
  /\ UNCHANGED <<device_count, device_id, session_count, session_id, pid, proc,
                 result, ret, held>>
  /\ UNCHANGED <<comVars, ctxVars, platVars, handles, closeCalled, openFailed, volVars>>

\* a variant with the continue of lib.rs:113 in force
CloseHandle_continue ==
  /\ pc = "CloseHandle"
  /\ closeCalled' = closeCalled \cup {proc}
  /\ \E ok \in BOOLEAN :
       /\ lastCall' = [call |-> "CloseHandle", ok |-> ok]
       /\ IF ok
          THEN /\ handles' = handles \ {proc}
               /\ IF res = 0
                  THEN NextSession
                  ELSE pc' = "CastVolume" /\ UNCHANGED walkVars
               /\ UNCHANGED <<result, ret, held>>
          ELSE Propagate("CloseHandle") /\ UNCHANGED handles
  /\ UNCHANGED <<comVars, ctxVars, platVars, noPath, openFailed, volVars>>

\* lib.rs:109; a failed CloseHandle leaves the handle open
CloseHandle ==
  /\ pc = "CloseHandle"
  /\ closeCalled' = closeCalled \cup {proc}
  /\ \E ok \in BOOLEAN :
       /\ lastCall' = [call |-> "CloseHandle", ok |-> ok]
       /\ IF ok
          THEN /\ handles' = handles \ {proc}
               /\ pc' = "CastVolume"
               /\ UNCHANGED <<walkVars, result, ret, held>>
          ELSE Propagate("CloseHandle") /\ UNCHANGED handles
  /\ UNCHANGED <<comVars, ctxVars, platVars, noPath, openFailed, volVars>>

\* lib.rs:116
CastVolume == Try("CastVolume", "IAudioSessionControl2::cast", TRUE, "Push")

\* a record whose handle is always the first session of the first endpoint
NewSession_first(p, str, k) == [pid |-> p, path |-> str, vol |-> <<0, 0>>]

\* lib.rs:122-126: the volume handle is the interface of the session at Key
NewSession(p, str, k) == [pid |-> p, path |-> str, vol |-> k]

\* lib.rs:118-126
Push ==
  /\ pc = "Push"
  /\ LET s == PathFromBuffer(path)
     IN IF s.panic
        THEN /\ pc' = "panicked"
             /\ result' = <<>>
             /\ ClearLocals
        ELSE /\ result' = Append(result, NewSession(pid, s.str, Key))
             /\ NextSession
  /\ UNCHANGED <<comVars, ctxVars, platVars, ret, held, lastCall, ghostVars, volVars>>

Enumerate ==
  \/ CoCreateInstance \/ EnumAudioEndpoints \/ CollectionGetCount \/ ForDevice
  \/ Item \/ Activate \/ GetSessionEnumerator \/ EnumeratorGetCount \/ ForSession
  \/ GetSession \/ CastControl2 \/ GetProcessId \/ OpenProcess
  \/ GetModuleFileNameExW \/ CloseHandle \/ CastVolume \/ Push

Next ==
  \/ WinMixDefault(MainCtx)
  \/ WinMixDrop(MainCtx)
  \/ EnumerateCall(MainCtx)
  \/ Enumerate

Spec == Init /\ [][Next]_vars

(***************************************************************************)
(* impl SimpleVolume, lib.rs:173-212.  The caller holds the Vec<Session>   *)
(* of a successful enumerate() and calls the handle of its i-th record.    *)
(* Volumes are in percent of full scale: the f32 levels 0.0, 0.25 and 1.0  *)
(* are 0, 25 and 100, 1.5 is 150.  ISimpleAudioVolume stores a level in    *)
(* [0.0, 1.0], rejects any other with E_INVALIDARG; every call may fail.   *)
(***************************************************************************)
Levels == {0, 25, 100}
OutOfRange == {150}

HoldsSessions == BetweenCalls /\ held /= <<>>

Handle(i) == held[i].vol

Some(v) == <<v>>
None == <<>>

\* what a call on the volume interface of session k may return: a session
\* the platform has invalidated rejects every call
SessionCallResults(k) == IF k \in sessInvalid THEN {FALSE} ELSE BOOLEAN

\* SetMasterVolume as the platform sees it: E_INVALIDARG outside [0.0, 1.0]
SetVolumeResults(k, level) == IF level \in Levels THEN SessionCallResults(k) ELSE {FALSE}

\* The caller has gone on after enumerate(): the value it returned has been
\* taken (its handles are in held, or it was an Err that is dropped), and the
\* account of that call's steps is closed.
AfterCall ==
  /\ pc' = "idle"
  /\ ret' = NoRet
  /\ lastCall' = NoCall
  /\ handles' = {} /\ closeCalled' = {} /\ noPath' = {} /\ openFailed' = {}

\* a handle that remembers what it last wrote
get_master_volume_cached(i) ==
  /\ HoldsSessions /\ i \in DOMAIN held
  /\ \E ok \in SessionCallResults(Handle(i)) :
       lastOp' = [op |-> "get_master_volume", h |-> Handle(i), arg |-> None,
                  fwd |-> None, platOk |-> ok, ok |-> ok,
                  val |-> IF ~ok THEN None
                          ELSE IF lastOp.op = "set_master_volume" /\ lastOp.ok
                                  /\ lastOp.h = Handle(i)
                               THEN lastOp.arg
                               ELSE Some(sessVol[Handle(i)])]
  /\ AfterCall
  /\ UNCHANGED <<comVars, ctxVars, platVars, walkVars, result, held, lastSetVol,
                 lastSetMute>>

\* lib.rs:178-180
get_master_volume(i) ==
  /\ HoldsSessions /\ i \in DOMAIN held
  /\ \E ok \in SessionCallResults(Handle(i)) :
       lastOp' = [op |-> "get_master_volume", h |-> Handle(i), arg |-> None,
                  fwd |-> None, platOk |-> ok, ok |-> ok,
                  val |-> IF ok THEN Some(sessVol[Handle(i)]) ELSE None]
  /\ AfterCall
  /\ UNCHANGED <<comVars, ctxVars, platVars, walkVars, result, held, lastSetVol,
                 lastSetMute>>

\* a handle that clamps the level into [0.0, 1.0] before the call
ForwardLevel_clamped(level) == IF level > 100 THEN 100 ELSE IF level < 0 THEN 0 ELSE level

\* lib.rs:189: the level handed to SetMasterVolume
ForwardLevel(level) == level

\* lib.rs:188-190
set_master_volume(i, level) ==
  /\ HoldsSessions /\ i \in DOMAIN held
  /\ \E ok \in SetVolumeResults(Handle(i), ForwardLevel(level)) :
       /\ lastOp' = [op |-> "set_master_volume", h |-> Handle(i), arg |-> Some(level),
                     fwd |-> Some(ForwardLevel(level)), platOk |-> ok, ok |-> ok,
                     val |-> None]
       /\ IF ok
          THEN /\ sessVol' = [sessVol EXCEPT ![Handle(i)] = ForwardLevel(level)]
               /\ lastSetVol' = [lastSetVol EXCEPT ![Handle(i)] = Some(level)]
          ELSE UNCHANGED <<sessVol, lastSetVol>>
  /\ AfterCall
  /\ UNCHANGED <<comVars, ctxVars, endpoints, sessMute, sessInvalid, walkVars,
                 result, held, lastSetMute>>

\* a variant that turns a failed GetMute into Ok(false)
get_mute_swallow(i) ==
  /\ HoldsSessions /\ i \in DOMAIN held
  /\ \E ok \in SessionCallResults(Handle(i)) :
       lastOp' = [op |-> "get_mute", h |-> Handle(i), arg |-> None,
                  fwd |-> None, platOk |-> ok, ok |-> TRUE,
                  val |-> IF ok THEN Some(sessMute[Handle(i)]) ELSE Some(FALSE)]
  /\ AfterCall
  /\ UNCHANGED <<comVars, ctxVars, platVars, walkVars, result, held, lastSetVol,
                 lastSetMute>>

\* lib.rs:196-201
get_mute(i) ==
  /\ HoldsSessions /\ i \in DOMAIN held
  /\ \E ok \in SessionCallResults(Handle(i)) :
       lastOp' = [op |-> "get_mute", h |-> Handle(i), arg |-> None,
                  fwd |-> None, platOk |-> ok, ok |-> ok,
                  val |-> IF ok THEN Some(sessMute[Handle(i)]) ELSE None]
  /\ AfterCall
  /\ UNCHANGED <<comVars, ctxVars, platVars, walkVars, result, held, lastSetVol,
                 lastSetMute>>

\* a variant that forwards the opposite flag
set_mute_inverted(i, val) ==
  /\ HoldsSessions /\ i \in DOMAIN held
  /\ \E ok \in SessionCallResults(Handle(i)) :
       /\ lastOp' = [op |-> "set_mute", h |-> Handle(i), arg |-> Some(val),
                     fwd |-> Some(~val), platOk |-> ok, ok |-> ok, val |-> None]
       /\ IF ok
          THEN /\ sessMute' = [sessMute EXCEPT ![Handle(i)] = ~val]
               /\ lastSetMute' = [lastSetMute EXCEPT ![Handle(i)] = Some(val)]
          ELSE UNCHANGED <<sessMute, lastSetMute>>
  /\ AfterCall
  /\ UNCHANGED <<comVars, ctxVars, endpoints, sessVol, sessInvalid, walkVars,
                 result, held, lastSetVol>>

\* lib.rs:209-211
set_mute(i, val) ==
  /\ HoldsSessions /\ i \in DOMAIN held
  /\ \E ok \in SessionCallResults(Handle(i)) :
       /\ lastOp' = [op |-> "set_mute", h |-> Handle(i), arg |-> Some(val),
                     fwd |-> Some(val), platOk |-> ok, ok |-> ok, val |-> None]
       /\ IF ok
          THEN /\ sessMute' = [sessMute EXCEPT ![Handle(i)] = val]
               /\ lastSetMute' = [lastSetMute EXCEPT ![Handle(i)] = Some(val)]
          ELSE UNCHANGED <<sessMute, lastSetMute>>
  /\ AfterCall
  /\ UNCHANGED <<comVars, ctxVars, endpoints, sessVol, sessInvalid, walkVars,
                 result, held, lastSetVol>>

\* Another actor (the system volume mixer) changes a session.  enumerate()
\* reads no volume, so a change during a call equals one right after it.
ExternalSetVolume(k, level) ==
  /\ BetweenCalls
  /\ sessVol' = [sessVol EXCEPT ![k] = level]
  /\ lastSetVol' = [lastSetVol EXCEPT ![k] = None]
  /\ UNCHANGED <<comVars, ctxVars, endpoints, sessMute, sessInvalid, pc, walkVars,
                 result, ret, held, lastCall, ghostVars, lastOp, lastSetMute>>

ExternalSetMute(k, val) ==
  /\ BetweenCalls
  /\ sessMute' = [sessMute EXCEPT ![k] = val]
  /\ lastSetMute' = [lastSetMute EXCEPT ![k] = None]
  /\ UNCHANGED <<comVars, ctxVars, endpoints, sessVol, sessInvalid, pc, walkVars,
                 result, ret, held, lastCall, ghostVars, lastOp, lastSetVol>>

\* The process of a session exits while the caller holds its handle: the
\* platform invalidates the session, and keeps the record of it.
SessionInvalidated(k) ==
  /\ HoldsSessions
  /\ k \notin sessInvalid
  /\ sessInvalid' = sessInvalid \cup {k}
  /\ UNCHANGED <<comVars, ctxVars, endpoints, sessVol, sessMute, pc, walkVars,
                 result, ret, held, lastCall, ghostVars, volVars>>

NextVol ==
  \/ WinMixDefault(MainCtx)
  \/ WinMixDrop(MainCtx)
  \/ EnumerateCall(MainCtx)
  \/ Enumerate
  \/ \E i \in 1..MaxSessions : get_master_volume(i)
  \/ \E i \in 1..MaxSessions, level \in Levels \cup OutOfRange : set_master_volume(i, level)
  \/ \E i \in 1..MaxSessions : get_mute(i)
  \/ \E i \in 1..MaxSessions, val \in BOOLEAN : set_mute(i, val)
  \/ \E k \in AllKeys(endpoints), level \in Levels : ExternalSetVolume(k, level)
  \/ \E k \in AllKeys(endpoints), val \in BOOLEAN : ExternalSetMute(k, val)

SpecVol == InitWith({Fixture}, {"none"}) /\ [][NextVol]_vars

\* the same caller, with sessions that expire instead of a second actor
NextExit ==
  \/ WinMixDefault(MainCtx)
  \/ WinMixDrop(MainCtx)
  \/ EnumerateCall(MainCtx)
  \/ Enumerate
  \/ \E i \in 1..MaxSessions : get_master_volume(i)
  \/ \E i \in 1..MaxSessions, level \in Levels \cup OutOfRange : set_master_volume(i, level)
  \/ \E i \in 1..MaxSessions : get_mute(i)
  \/ \E i \in 1..MaxSessions, val \in BOOLEAN : set_mute(i, val)
  \/ \E k \in AllKeys(endpoints) : SessionInvalidated(k)

SpecExit == InitWith({Fixture}, {"none"}) /\ [][NextExit]_vars

(***************************************************************************)
(* Properties of enumerate(), checked under Spec.                          *)
(***************************************************************************)
Returned == pc = "returned"
ReturnedOk == pc = "returned" /\ ret.ok
ReturnedErr == pc = "returned" /\ ~ret.ok

\* the sessions of the platform in platform order, as <<key, pid>>
RECURSIVE SessionsFrom(_, _)
SessionsFrom(t, d) ==
  IF d > Len(t) THEN <<>>
  ELSE [s \in 1..Len(t[d]) |-> <<(<<d - 1, s - 1>>), t[d][s]>>] \o SessionsFrom(t, d + 1)

PlatformSessions == SessionsFrom(endpoints, 1)

HasNonZeroPid(e) == e[2] /= 0

\* the returned record, if any, made from the session at key k
RecordsOf(k) == {i \in DOMAIN ret.val : ret.val[i].vol = k}

\* C1: when OpenProcess fails for a session with pid /= 0, enumerate() still
\* returns success and that session is in the result with an empty path.
\* lib.rs:104 propagates the failure with ?, so this is violated.
C1_OpenFailureSwallowed ==
  (Returned /\ openFailed /= {}) =>
     /\ ret.ok
     /\ \A k \in openFailed : \E i \in RecordsOf(k) : ret.val[i].path = <<>>

\* C2: every Session of a successful enumerate() result, and every Session
\* collected on the way, has pid /= 0.
C2_NoZeroPid ==
  /\ \A i \in DOMAIN result : result[i].pid /= 0
  /\ ReturnedOk => \A i \in DOMAIN ret.val : ret.val[i].pid /= 0

\* C2 witness: the platform exposed the system-sounds session beside a
\* process's session, and enumerate() returned the latter alone.
C2_Witness ==
  /\ ReturnedOk
  /\ endpoints = << <<0, 1>> >>
  /\ Len(ret.val) = 1 /\ ret.val[1].pid = 1

\* C3: a successful enumerate() returns exactly the platform sessions with
\* pid /= 0, one record each, in platform order (endpoints in order, then the
\* sessions of each endpoint in order).
C3_ExactlyTheProcessSessions ==
  ReturnedOk =>
    [i \in DOMAIN ret.val |-> <<ret.val[i].vol, ret.val[i].pid>>]
      = SelectSeq(PlatformSessions, HasNonZeroPid)

\* C3 witness: two endpoints with one process session each, returned in
\* the order of the endpoints.
C3_Witness ==
  /\ ReturnedOk
  /\ Len(endpoints) = 2
  /\ Len(ret.val) = 2
  /\ ret.val[1].vol = <<0, 0>> /\ ret.val[2].vol = <<1, 0>>
  /\ ret.val[1].pid /= ret.val[2].pid

\* C4: a session whose process was opened but whose module-path query failed
\* stays in the walk: it is collected with an empty path, a successful return
\* holds it with its pid and an empty path, and no error return is caused by
\* the query.
C4_QueryFailureKeepsSession ==
  /\ (pc \notin {"idle", "returned", "panicked"}) =>
       \A k \in noPath :
          \/ \E i \in DOMAIN result :
               result[i].vol = k /\ result[i].path = <<>> /\ result[i].pid = PidOf(k)
          \/ k = Key /\ pc \in {"CloseHandle", "CastVolume", "Push"}
  /\ ReturnedOk =>
       \A k \in noPath :
          \E i \in RecordsOf(k) : ret.val[i].path = <<>> /\ ret.val[i].pid = PidOf(k)
  /\ ReturnedErr => ret.err /= "GetModuleFileNameExW"

\* C4 witness: enumerate() returned success although a module-path query failed.
C4_Witness == ReturnedOk /\ noPath /= {} /\ Len(ret.val) = 2

HardCalls ==
  {"CoCreateInstance", "EnumAudioEndpoints", "IMMDeviceCollection::GetCount", "Item",
   "Activate", "GetSessionEnumerator", "IAudioSessionEnumerator::GetCount",
   "GetSession", "IAudioSessionControl::cast", "GetProcessId",
   "IAudioSessionControl2::cast"}

\* C5: when a device-enumeration, endpoint-activation, session-enumeration or
\* interface-acquisition call fails, enumerate() has returned an error and
\* hands no session to the caller, whatever it had collected.
C5_AllOrNothing ==
  (lastCall.call \in HardCalls /\ ~lastCall.ok) =>
     /\ pc = "returned"
     /\ ~ret.ok
     /\ ret.val = <<>>
     /\ result = <<>>

\* C5 witness: GetSession failed after an earlier session had been processed
\* to the end, so a collected session was discarded.
C5_Witness ==
  /\ ReturnedErr
  /\ ret.err = "GetSession"
  /\ lastCall = [call |-> "GetSession", ok |-> FALSE]
  /\ closeCalled /= {}

\* C8 as stated: at every return of enumerate(), by success or by error, no
\* process handle opened by the call is still open.  A failed CloseHandle
\* (lib.rs:109) returns an error with the handle open.
C8_NoHandleOpenAtReturn == pc \in {"returned", "panicked"} => handles = {}

\* C8 as amended: CloseHandle is called on every process handle right after
\* the query, whether or not the query succeeded; so at most the handle in
\* use is open during the walk, at every return each handle opened has been
\* passed to CloseHandle, a successful return leaves none open, and a handle
\* is left open only by the error return of a failed CloseHandle.
C8_EveryHandlePassedToClose ==
  /\ handles \ closeCalled \subseteq {proc}
  /\ (pc \notin {"GetModuleFileNameExW", "CloseHandle"}) => handles \subseteq closeCalled
  /\ ReturnedOk => handles = {}
  /\ (pc \in {"returned", "panicked"} /\ handles /= {}) =>
       (~ret.ok /\ ret.err = "CloseHandle")
  /\ (pc \in {"returned", "panicked"}) => noPath \subseteq closeCalled

\* C8 witness: a return after a failed query, with the handle closed.
C8_Witness == Returned /\ noPath /= {} /\ closeCalled /= {} /\ handles = {}

\* C9: every path of a returned or collected Session is empty or does not end
\* in NUL.  trim_matches (lib.rs:120) measures the string without its leading
\* NULs too, so a buffer that starts with NUL is cut too short.
C9_NoTrailingNul ==
  /\ \A i \in DOMAIN result :
       result[i].path = <<>> \/ result[i].path[Len(result[i].path)] /= 0
  /\ ReturnedOk =>
       \A i \in DOMAIN ret.val :
          ret.val[i].path = <<>> \/ ret.val[i].path[Len(ret.val[i].path)] /= 0

(***************************************************************************)
(* Properties of the lifecycle, checked under SpecLife.                    *)
(***************************************************************************)
RECURSIVE SumOver(_, _)
SumOver(f, S) ==
  IF S = {} THEN 0
  ELSE LET x == CHOOSE y \in S : TRUE IN f[x] + SumOver(f, S \ {x})

\* the WinMix values whose creation initialised COM on the thread (S_OK), as
\* opposed to finding it initialised (S_FALSE, RPC_E_CHANGED_MODE) or failing
Initialisers == {c \in Contexts : initHres[c] = "S_OK"}

\* C6: the drop of a WinMix calls CoUninitialize if and only if its own
\* creation performed the initialisation; one created while COM was already
\* initialised never does.  CoInitialize returns S_FALSE on a thread already
\* in a single-threaded apartment, is_ok() is true of it (lib.rs:143), and
\* the drop then calls CoUninitialize.
C6_DeinitIffOwnInit ==
  \A c \in Contexts :
     ctx[c] = "dropped" => (coUninit[c] > 0 <=> c \in Initialisers)

\* C7: the CoUninitialize calls of the WinMix values never outnumber the
\* initialisations their creations performed, each owner releases exactly
\* once, and the counts are equal once every WinMix is dropped.  The drop of
\* a WinMix created by S_FALSE (see C6) adds a release without an
\* initialisation.
C7_DeinitNeverExceedsInit ==
  /\ SumOver(coUninit, Contexts) <= Cardinality(Initialisers)
  /\ \A c \in Initialisers : coUninit[c] = (IF ctx[c] = "dropped" THEN 1 ELSE 0)
  /\ (\A c \in Contexts : ctx[c] = "dropped") =>
        SumOver(coUninit, Contexts) = Cardinality(Initialisers)

(***************************************************************************)
(* Properties of the volume handle, checked under SpecVol.                 *)
(***************************************************************************)
\* C10: a successful get_master_volume() returns the level of the last
\* successful set_master_volume on that session's handle, and a successful
\* get_mute() the value of the last successful set_mute, when no other actor
\* changed the session in between.
C10_ReadsBackLastSet ==
  /\ (lastOp.op = "get_master_volume" /\ lastOp.ok /\ lastSetVol[lastOp.h] /= None) =>
        lastOp.val = lastSetVol[lastOp.h]
  /\ (lastOp.op = "get_mute" /\ lastOp.ok /\ lastSetMute[lastOp.h] /= None) =>
        lastOp.val = lastSetMute[lastOp.h]

\* C10 witness: from 1.0 and unmuted, set_master_volume(0.25) and
\* set_mute(true) went through, and a read of the mute state gave true.
C10_Witness ==
  /\ lastOp.op = "get_mute" /\ lastOp.ok /\ lastOp.val = Some(TRUE)
  /\ lastSetVol[lastOp.h] = Some(25)
  /\ lastSetMute[lastOp.h] = Some(TRUE)
  /\ sessVol[lastOp.h] = 25

(***************************************************************************)
(* Properties of handles on expired sessions, checked under SpecExit.      *)
(***************************************************************************)
VolumeOps == {"get_master_volume", "set_master_volume", "get_mute", "set_mute"}

\* a step that is a call of a SimpleVolume method
IsVolumeCall ==
  /\ lastOp'.op \in VolumeOps
  /\ \/ lastOp'.op /= lastOp.op
     \/ lastOp' /= lastOp

\* C11: a volume or mute call on a handle whose session is no longer valid
\* returns an error, and changes neither the volume or mute of any session
\* nor com_initialized of any WinMix.
C11_InvalidSessionFailsCleanly ==
  [][(IsVolumeCall /\ lastOp'.h \in sessInvalid) =>
        /\ ~lastOp'.ok
        /\ UNCHANGED <<sessVol, sessMute, sessInvalid, com_initialized>>]_vars

\* C11 witness: a set_master_volume on an expired session failed, after an
\* earlier one on the same session had gone through.
C11_Witness ==
  /\ lastOp.op = "set_master_volume" /\ ~lastOp.ok
  /\ lastOp.h \in sessInvalid
  /\ lastOp.arg = Some(0)
  /\ lastSetVol[lastOp.h] = Some(25)
  /\ sessVol[lastOp.h] = 25

(***************************************************************************)
(* Properties of the volume handle next to a second actor, under SpecVol.  *)
(***************************************************************************)
\* C12: the handle caches nothing: every successful get_master_volume() and
\* get_mute() returns the value the platform holds for the session at that
\* moment, whatever was read or written through the handle before and
\* whoever changed the session last.
C12_GetReturnsCurrentValue ==
  [][/\ (IsVolumeCall /\ lastOp'.op = "get_master_volume" /\ lastOp'.ok) =>
           lastOp'.val = Some(sessVol'[lastOp'.h])
     /\ (IsVolumeCall /\ lastOp'.op = "get_mute" /\ lastOp'.ok) =>
           lastOp'.val = Some(sessMute'[lastOp'.h])]_vars

\* C12 witness: get_master_volume() returned 0.0 for a session that started
\* at 1.0 and that another actor changed after the last write through the
\* handle, the handle having muted the session before.
C12_Witness ==
  /\ lastOp.op = "get_master_volume" /\ lastOp.ok /\ lastOp.val = Some(0)
  /\ lastSetVol[lastOp.h] = None
  /\ lastSetMute[lastOp.h] = Some(TRUE)
  /\ sessVol[lastOp.h] = 0

(***************************************************************************)
(* Properties of a WinMix whose CoInitialize failed, checked under Spec.   *)
(***************************************************************************)
InitFailed(c) == initHres[c] /= "none" /\ ~is_ok(initHres[c])

\* C13: default() yields a WinMix whatever CoInitialize returned; when it
\* returned a failure, com_initialized is false and drop() never calls
\* CoUninitialize; the failure shows only as the error of an enumerate()
\* that the platform rejects, which on a thread left without an apartment
\* is the error of CoCreateInstance.
C13_InitFailureIsNotFatal ==
  \A c \in Contexts :
    /\ initHres[c] /= "none" => ctx[c] \in {"alive", "dropped"}
    /\ InitFailed(c) => ~com_initialized[c] /\ coUninit[c] = 0
    /\ (InitFailed(c) /\ comCount = 0 /\ Returned) =>
          ReturnedErr /\ ret.err = "CoCreateInstance"
    /\ (InitFailed(c) /\ ReturnedErr) => lastCall = [call |-> ret.err, ok |-> FALSE]

\* C13 witness: CoInitialize failed with E_OUTOFMEMORY on a thread without
\* an apartment, enumerate() returned the error of CoCreateInstance, and the
\* WinMix was dropped without a CoUninitialize.
C13_Witness ==
  /\ ctx[MainCtx] = "dropped"
  /\ initHres[MainCtx] = "E_OUTOFMEMORY"
  /\ ~com_initialized[MainCtx] /\ coUninit[MainCtx] = 0
  /\ comCount = 0
  /\ ReturnedErr /\ ret.err = "CoCreateInstance"

(***************************************************************************)
(* The level set_master_volume passes on, checked under SpecExit.          *)
(***************************************************************************)
\* C14: set_master_volume(level) hands the platform the level it was given,
\* inside [0.0, 1.0] or not, and returns the platform's verdict: it neither
\* clamps nor rejects, so a level out of range ends as the platform's
\* rejection and leaves the session's level as it was.
C14_LevelForwardedUnchanged ==
  lastOp.op = "set_master_volume" =>
    /\ lastOp.fwd = lastOp.arg
    /\ lastOp.ok = lastOp.platOk
    /\ lastOp.ok => sessVol[lastOp.h] = lastOp.arg[1]
    /\ lastOp.arg[1] \in OutOfRange => ~lastOp.ok /\ sessVol[lastOp.h] \in Levels

\* C14 witness: set_master_volume(1.5) came back with the platform's error,
\* on a session that an earlier set_master_volume(0.25) had changed.
C14_Witness ==
  /\ lastOp.op = "set_master_volume"
  /\ lastOp.arg = Some(150) /\ lastOp.fwd = Some(150)
  /\ ~lastOp.platOk /\ ~lastOp.ok
  /\ lastSetVol[lastOp.h] = Some(25)
  /\ sessVol[lastOp.h] = 25

(***************************************************************************)
(* Frame of the volume handle, checked under SpecVol.                      *)
(***************************************************************************)
SetOps == {"set_master_volume", "set_mute"}

\* the handle of every record the caller holds is the session its pid was
\* read from
BoundToOwnSession ==
  /\ ReturnedOk => held = HeldOf(ret.val)
  /\ \A i \in DOMAIN held :
       /\ held[i].vol \in AllKeys(endpoints)
       /\ PidOf(held[i].vol) = held[i].pid
       /\ \A j \in DOMAIN held : held[j].vol = held[i].vol => j = i

\* C15: in every Session enumerate() returned, vol is the volume interface
\* of the session the pid was read from, and a set_master_volume or
\* set_mute through it changes the level or the mute state of that session
\* and of no other.
C15_HandleBoundToItsSession ==
  [][/\ BoundToOwnSession'
     /\ (IsVolumeCall /\ lastOp'.op \in SetOps) =>
          /\ \E i \in DOMAIN held :
                held[i].vol = lastOp'.h /\ held[i].pid = PidOf(lastOp'.h)
          /\ \A k \in AllKeys(endpoints) \ {lastOp'.h} :
                sessVol'[k] = sessVol[k] /\ sessMute'[k] = sessMute[k]
          /\ lastOp'.op = "set_master_volume" =>
                /\ sessMute' = sessMute
                /\ lastOp'.ok => sessVol'[lastOp'.h] = lastOp'.arg[1]
          /\ lastOp'.op = "set_mute" =>
                /\ sessVol' = sessVol
                /\ lastOp'.ok => sessMute'[lastOp'.h] = lastOp'.arg[1]]_vars

\* C15 witness: set_master_volume(0.25) through the record of pid 2 went
\* through; the session of pid 2 is at 0.25 and the session of pid 1 still
\* at 1.0, and unmuted.
C15_Witness ==
  /\ Len(held) = 2
  /\ lastOp.op = "set_master_volume" /\ lastOp.ok /\ lastOp.arg = Some(25)
  /\ lastOp.h = held[2].vol /\ held[2].pid = 2
  /\ sessVol[held[2].vol] = 25
  /\ held[1].pid = 1 /\ sessVol[held[1].vol] = 100
  /\ lastSetVol[held[1].vol] = None /\ lastSetMute[held[1].vol] = None

(***************************************************************************)
(* Frame of enumerate(), checked under SpecVol.                            *)
(***************************************************************************)
\* a step of enumerate(): its entry, or any step of the walk up to its return
IsEnumerateStep ==
  \/ pc \notin {"idle", "returned", "panicked"}
  \/ pc /= "CoCreateInstance" /\ pc' = "CoCreateInstance"

\* C16: enumerate() only reads: returning Ok or Err, no step of it changes
\* the level or mute state of a session, com_initialized of the WinMix, or
\* the thread's COM initialisation (no CoInitialize, no CoUninitialize).
C16_EnumerateIsPureQuery ==
  [][IsEnumerateStep =>
        UNCHANGED <<sessVol, sessMute, sessInvalid, endpoints,
                    com_initialized, coUninit, initHres, ctx,
                    comCount, comMode>>]_vars

\* C16 witness: after set_master_volume(0.25) and set_mute(true) on a
\* session, a second enumerate() failed in the middle of its walk; the
\* session is still at 0.25 and muted, and the WinMix still owns COM.
C16_Witness ==
  /\ ReturnedErr /\ ret.err \notin {"none", "CoCreateInstance"}
  /\ lastOp.op = "none"
  /\ \E k \in AllKeys(endpoints) :
        /\ lastSetVol[k] = Some(25) /\ sessVol[k] = 25
        /\ lastSetMute[k] = Some(TRUE) /\ sessMute[k]
  /\ com_initialized[MainCtx] /\ comCount = 1 /\ coUninit[MainCtx] = 0

====
